---- MODULE Spec2Model ----
(***************************************************************************)
(* Model of scripts/process_data.py of fkbb: the per-month aggregation of  *)
(* Bluebike trips (create_station_registry, add_station_uuids_to_dataframe,*)
(* calculate_fastest_times), the merge into the cumulative tables          *)
(* (create_station_data) and the run loop of main() with its persistence   *)
(* (load_existing_data, the per-month backup, generate_hugo_content).      *)
(*                                                                         *)
(* Units: a coordinate is a float given by its sign and its value in 1e-7  *)
(* degrees; durations are integer seconds, so fastest_time_minutes =       *)
(* seconds / 60 is carried as the number of seconds.                       *)
(* metadata['last_updated'] (a wall-clock string) is not part of the       *)
(* state.                                                                  *)
(***************************************************************************)
EXTENDS Integers, Sequences, FiniteSets, TLC

\* ------------------------------------------------------------------------
\* Bounds
\* ------------------------------------------------------------------------
MaxTrips == 2        \* trips of one batch merged under SpecMerge, SpecAlias
MaxMerges == 2       \* batches merged in a row under SpecMerge, SpecAlias
NumMonths == 2       \* files (months) of the listing
MaxRuns == 2         \* runs of main under Spec
MaxCalls == 2        \* calls of generate_station_uuid under SpecKey
MaxStationTrips == 2 \* trips of one batch under SpecRegistry, SpecResolve
MaxSecondFiles == 1  \* months with a second file in the listing under SpecListing

\* ------------------------------------------------------------------------
\* Input domains
\* ------------------------------------------------------------------------
\* A float: the sign bit and the value in units of 1e-7.  Python keeps the
\* sign of a zero (-0.0), and -0.0 == 0.0.
Float(x) == [neg |-> x < 0, val |-> x]

\* Station observations as they appear in trip rows (raw id, name, raw
\* coordinates with a seventh decimal digit).  c is the dock of a under
\* another raw id and name, a few centimetres away.
Obs ==
  [ a |-> [id |-> "12", name |-> "MIT",
           lat |-> Float(423600003), lng |-> Float(-710940002)],
    b |-> [id |-> "7", name |-> "Central",
           lat |-> Float(423650959), lng |-> Float(-710900004)],
    c |-> [id |-> "012X", name |-> "MIT at Mass Ave",
           lat |-> Float(423600004), lng |-> Float(-710940001)] ]

\* The observations of the trips merged under SpecMerge and Spec.
ObsNames == {"a", "b"}

\* Trip durations in seconds: 5.0 and 7.5 minutes.
Durations == {300, 450}

\* One qualifying trip of a month's file, after the normalisation and the
\* validity filter of download_and_process_data.
TripInputs == {t \in [s : ObsNames, e : ObsNames, dur : Durations] : t.s # t.e}

\* Non-empty sequences of trips of length at most n.
Batches(n) == UNION {[1..k -> TripInputs] : k \in 1..n}

\* The trips of SpecRegistry: between any two of the three observations,
\* all of one duration.
StationTrips == {t \in [s : DOMAIN Obs, e : DOMAIN Obs, dur : {300}] : t.s # t.e}

StationBatches == UNION {[1..k -> StationTrips] : k \in 1..MaxStationTrips}

\* The trips of SpecAlias: to Central from either observation of the MIT
\* dock.
AliasTrips == [s : {"a", "c"}, e : {"b"}, dur : Durations]

AliasBatches == UNION {[1..k -> AliasTrips] : k \in 1..MaxTrips}

\* The trips of SpecFrame: both directions between the MIT dock and
\* Central, and a trip between the two observations of the dock, whose
\* batch registry does not hold Central.
FrameTrips ==
  { [s |-> "a", e |-> "b", dur |-> 450], [s |-> "a", e |-> "b", dur |-> 300],
    [s |-> "b", e |-> "a", dur |-> 300], [s |-> "a", e |-> "c", dur |-> 300] }

FrameBatches == UNION {[1..k -> FrameTrips] : k \in 1..MaxTrips}

\* Coordinates given to generate_station_uuid under SpecKey: on both sides
\* of a sixth-decimal boundary, and on both sides of zero.
KeyCoords ==
  {Float(x) : x \in {423600003, 423600004, 423600006, -710940002, -4, 4}}

\* The files a month of the listing can hold under Spec: two pairs with one
\* trip each, or one pair with a fast and a slow trip.
SampleFiles ==
  { << [s |-> "a", e |-> "b", dur |-> 450], [s |-> "b", e |-> "a", dur |-> 300] >>,
    << [s |-> "a", e |-> "b", dur |-> 300], [s |-> "a", e |-> "b", dur |-> 450] >> }

\* ------------------------------------------------------------------------
\* Small helpers on dictionaries (functions with a finite domain)
\* ------------------------------------------------------------------------
EmptyDict == << >>

\* d[k] = v
Put(d, k, v) == (k :> v) @@ d

\* The function f with all its values computed (TLC keeps a function
\* written [x \in S |-> e] as the expression e and evaluates it again at
\* every application).
Table(f) == f @@ << >>

\* ------------------------------------------------------------------------
\* generate_station_uuid
\* ------------------------------------------------------------------------
\* The value of round(x, 6) for a value given in 1e-7 (no input is a tie).
Round6(x) == ((x + 5) \div 10) * 10

\* round(float(x), 6): the sign of x is kept, also when the result is zero
\* (round(-0.0000004, 6) is -0.0).
round(number) == [neg |-> number.neg, val |-> Round6(number.val)]

\* f"{x}" of a float: an optional "-" and the shortest digits that give the
\* value back ("-0.0" for -0.0, "0.0" for 0.0).
FormatFloat(x) == <<IF x.neg THEN "-" ELSE "", IF x.val < 0 THEN 0 - x.val ELSE x.val>>

\* The MD5 of the string "<rounded_lat>,<rounded_lng>" rendered as a UUID:
\* the hash is taken to be injective on the strings, so the key is carried
\* as the string it is computed from.
generate_station_uuid(lat, lng) ==
  <<FormatFloat(round(lat)), FormatFloat(round(lng))>>

\* ------------------------------------------------------------------------
\* The data frame of one batch
\* ------------------------------------------------------------------------
\* Rows of batch number m (month, or position in the merge history): every
\* trip gets its own ride_id and started_at.
TripRows(m, batch) ==
  Table([i \in 1..Len(batch) |->
     [ ride_id            |-> <<m, i>>,
       started_at         |-> [month |-> m, sec |-> i],
       start_station_id   |-> Obs[batch[i].s].id,
       start_station_name |-> Obs[batch[i].s].name,
       start_lat          |-> Obs[batch[i].s].lat,
       start_lng          |-> Obs[batch[i].s].lng,
       end_station_id     |-> Obs[batch[i].e].id,
       end_station_name   |-> Obs[batch[i].e].name,
       end_lat            |-> Obs[batch[i].e].lat,
       end_lng            |-> Obs[batch[i].e].lng,
       duration_minutes   |-> batch[i].dur ]])

\* DataFrame.drop_duplicates(): keeps the first occurrence of every row.
DropDuplicates(s) ==
  LET keep == {i \in 1..Len(s) : \A j \in 1..(i - 1) : s[j] # s[i]}
      nth(k) == CHOOSE i \in keep : Cardinality({j \in keep : j < i}) = k - 1
  IN  Table([k \in 1..Cardinality(keep) |-> s[nth(k)]])

StartStations(df) ==
  DropDuplicates([i \in 1..Len(df) |->
     [id |-> df[i].start_station_id, name |-> df[i].start_station_name,
      lat |-> df[i].start_lat, lng |-> df[i].start_lng]])

EndStations(df) ==
  DropDuplicates([i \in 1..Len(df) |->
     [id |-> df[i].end_station_id, name |-> df[i].end_station_name,
      lat |-> df[i].end_lat, lng |-> df[i].end_lng]])

\* ------------------------------------------------------------------------
\* create_station_registry
\* ------------------------------------------------------------------------
\* Mutant of RegisterStations: a key already in the registry keeps the ids
\* and names of its first row.
RECURSIVE RegisterStations_FirstRow(_, _)
RegisterStations_FirstRow(station_registry, stations) ==
  IF stations = << >> THEN station_registry
  ELSE LET row == Head(stations)
           station_uuid == generate_station_uuid(row.lat, row.lng)
           entry == IF station_uuid \in DOMAIN station_registry
                    THEN station_registry[station_uuid]
                    ELSE [ uuid |-> station_uuid, lat |-> row.lat, lng |-> row.lng,
                           current_name |-> row.name,
                           bluebike_ids |-> {row.id}, all_names |-> {row.name} ]
       IN  RegisterStations_FirstRow(Put(station_registry, station_uuid, entry),
                                     Tail(stations))

\* One loop of create_station_registry over the (deduplicated) station rows.
\* bluebike_ids and all_names are sets, returned as sorted lists: a sorted
\* duplicate-free list is carried as the set it lists.
RECURSIVE RegisterStations(_, _)
RegisterStations(station_registry, stations) ==
  IF stations = << >> THEN station_registry
  ELSE LET row == Head(stations)
           station_uuid == generate_station_uuid(row.lat, row.lng)
           entry == IF station_uuid \in DOMAIN station_registry
                    THEN station_registry[station_uuid]
                    ELSE [ uuid |-> station_uuid, lat |-> row.lat, lng |-> row.lng,
                           current_name |-> row.name,
                           bluebike_ids |-> {}, all_names |-> {} ]
           updated == [entry EXCEPT !.bluebike_ids = @ \cup {row.id},
                                    !.all_names = @ \cup {row.name},
                                    !.current_name = row.name]
       IN  RegisterStations(Put(station_registry, station_uuid, updated), Tail(stations))

create_station_registry(df) ==
  RegisterStations(RegisterStations(EmptyDict, StartStations(df)), EndStations(df))

\* ------------------------------------------------------------------------
\* add_station_uuids_to_dataframe
\* ------------------------------------------------------------------------
\* f"{round(lat, 6)},{round(lng, 6)}"
CoordKey(lat, lng) == <<FormatFloat(round(lat)), FormatFloat(round(lng))>>

\* coord_to_uuid.get(coord_key): the set of uuids registered under the key
\* (empty when the lookup returns None).
CoordToUuid(station_registry, coord_key) ==
  {u \in DOMAIN station_registry :
      CoordKey(station_registry[u].lat, station_registry[u].lng) = coord_key}

\* Mutant of add_station_uuids_to_dataframe: the rows from the first
\* unmappable one on are lost.
add_station_uuids_to_dataframe_StopAtFirst(df, station_registry) ==
  LET mappable(i) ==
        /\ CoordToUuid(station_registry, CoordKey(df[i].start_lat, df[i].start_lng)) # {}
        /\ CoordToUuid(station_registry, CoordKey(df[i].end_lat, df[i].end_lng)) # {}
      n == Cardinality({i \in 1..Len(df) : \A j \in 1..i : mappable(j)})
  IN  Table([i \in 1..n |->
        [ride_id |-> df[i].ride_id, started_at |-> df[i].started_at,
         start_station_name |-> df[i].start_station_name,
         end_station_name |-> df[i].end_station_name,
         start_lat |-> df[i].start_lat, start_lng |-> df[i].start_lng,
         end_lat |-> df[i].end_lat, end_lng |-> df[i].end_lng,
         duration_minutes |-> df[i].duration_minutes,
         start_station_uuid |->
           CHOOSE u \in CoordToUuid(station_registry, CoordKey(df[i].start_lat, df[i].start_lng)) : TRUE,
         end_station_uuid |->
           CHOOSE u \in CoordToUuid(station_registry, CoordKey(df[i].end_lat, df[i].end_lng)) : TRUE]])

add_station_uuids_to_dataframe(df, station_registry) ==
  LET mappable(row) ==
        /\ CoordToUuid(station_registry, CoordKey(row.start_lat, row.start_lng)) # {}
        /\ CoordToUuid(station_registry, CoordKey(row.end_lat, row.end_lng)) # {}
      withUuid(row) ==
        [ride_id |-> row.ride_id, started_at |-> row.started_at,
         start_station_name |-> row.start_station_name,
         end_station_name |-> row.end_station_name,
         start_lat |-> row.start_lat, start_lng |-> row.start_lng,
         end_lat |-> row.end_lat, end_lng |-> row.end_lng,
         duration_minutes |-> row.duration_minutes,
         start_station_uuid |->
           CHOOSE u \in CoordToUuid(station_registry, CoordKey(row.start_lat, row.start_lng)) : TRUE,
         end_station_uuid |->
           CHOOSE u \in CoordToUuid(station_registry, CoordKey(row.end_lat, row.end_lng)) : TRUE]
      kept == SelectSeq(df, mappable)
  IN  Table([i \in 1..Len(kept) |-> withUuid(kept[i])])

\* ------------------------------------------------------------------------
\* haversine_distance, calculate_fastest_times
\* ------------------------------------------------------------------------
\* The great-circle distance in millionths of a kilometre (millimetres):
\* the values of the formula of lines 365-376, in double precision, at the
\* coordinates of Obs, to the nearest millimetre.
Haversine ==
  <<423600003, -710940002, 423600003, -710940002>> :> 0 @@       \* a -> a
  <<423600003, -710940002, 423650959, -710900004>> :> 655010 @@  \* a -> b  0.6550102 km
  <<423600003, -710940002, 423600004, -710940001>> :> 14 @@      \* a -> c  0.0000138 km
  <<423650959, -710900004, 423600003, -710940002>> :> 655010 @@  \* b -> a
  <<423650959, -710900004, 423650959, -710900004>> :> 0 @@       \* b -> b
  <<423650959, -710900004, 423600004, -710940001>> :> 654997 @@  \* b -> c  0.6549965 km
  <<423600004, -710940001, 423600003, -710940002>> :> 14 @@      \* c -> a
  <<423600004, -710940001, 423650959, -710900004>> :> 654997 @@  \* c -> b
  <<423600004, -710940001, 423600004, -710940001>> :> 0          \* c -> c

haversine_distance(lat1, lng1, lat2, lng2) ==
  Haversine[<<lat1.val, lng1.val, lat2.val, lng2.val>>]

\* Mutant of calculate_fastest_times: the ride details are those of the
\* last row of the group that has the minimum.
calculate_fastest_times_LastMin(df) ==
  LET groups == {<<df[i].start_station_uuid, df[i].end_station_uuid>> : i \in 1..Len(df)}
      members(g) == {i \in 1..Len(df) :
                       <<df[i].start_station_uuid, df[i].end_station_uuid>> = g}
      minimum(g) == CHOOSE d \in {df[i].duration_minutes : i \in members(g)} :
                       \A i \in members(g) : d <= df[i].duration_minutes
      idxmin(g) == CHOOSE i \in members(g) :
                       /\ df[i].duration_minutes = minimum(g)
                       /\ \A j \in members(g) :
                            df[j].duration_minutes = minimum(g) => i >= j
      result(g) ==
        LET ride == df[idxmin(g)]
        IN  [ start_station_uuid   |-> g[1],
              end_station_uuid     |-> g[2],
              fastest_time_minutes |-> minimum(g),
              trip_count           |-> Cardinality(members(g)),
              start_station_name   |-> ride.start_station_name,
              end_station_name     |-> ride.end_station_name,
              started_at           |-> ride.started_at,
              ride_id              |-> ride.ride_id,
              distance_km          |-> haversine_distance(ride.start_lat, ride.start_lng,
                                                          ride.end_lat, ride.end_lng) ]
  IN  {result(g) : g \in groups}

\* The result frame: one row per (start uuid, end uuid) group.
calculate_fastest_times(df) ==
  LET groups == {<<df[i].start_station_uuid, df[i].end_station_uuid>> : i \in 1..Len(df)}
      members(g) == {i \in 1..Len(df) :
                       <<df[i].start_station_uuid, df[i].end_station_uuid>> = g}
      minimum(g) == CHOOSE d \in {df[i].duration_minutes : i \in members(g)} :
                       \A i \in members(g) : d <= df[i].duration_minutes
      \* idxmin: the first row of the group that has the minimum
      idxmin(g) == CHOOSE i \in members(g) :
                       /\ df[i].duration_minutes = minimum(g)
                       /\ \A j \in members(g) :
                            df[j].duration_minutes = minimum(g) => i <= j
      result(g) ==
        LET ride == df[idxmin(g)]
        IN  [ start_station_uuid   |-> g[1],
              end_station_uuid     |-> g[2],
              fastest_time_minutes |-> minimum(g),
              trip_count           |-> Cardinality(members(g)),
              start_station_name   |-> ride.start_station_name,
              end_station_name     |-> ride.end_station_name,
              started_at           |-> ride.started_at,
              ride_id              |-> ride.ride_id,
              distance_km          |-> haversine_distance(ride.start_lat, ride.start_lng,
                                                          ride.end_lat, ride.end_lng) ]
  IN  {result(g) : g \in groups}

\* ------------------------------------------------------------------------
\* create_station_data
\* ------------------------------------------------------------------------
\* f"{int(m)}:{int((m % 1) * 60):02d}" of m = secs / 60 minutes: the whole
\* minutes and the whole seconds of the remaining fraction (the model's
\* durations are exact in binary floating point).
FormatTime(secs) == [min |-> secs \div 60, sec |-> secs % 60]

\* round(distance_km, 2) of a distance in millimetres, in hundredths of a
\* kilometre (no distance of Haversine is a tie).
Round2(distance) == (distance + 5000) \div 10000

\* started_at.strftime('%Y-%m-%d %H:%M:%S')
Strftime(started_at) == <<started_at.month, started_at.sec>>

\* Mutant of MergeRegistry: the batch's entry replaces the cumulative one.
MergeRegistry_Replace(station_registry, existing_registry) ==
  Table([u \in DOMAIN existing_registry \cup DOMAIN station_registry |->
     IF u \in DOMAIN station_registry
     THEN station_registry[u]
     ELSE existing_registry[u]])

\* Mutant of MergeRegistry: a key already there takes the batch's
\* coordinates too.
MergeRegistry_MoveCoordinates(station_registry, existing_registry) ==
  Table([u \in DOMAIN existing_registry \cup DOMAIN station_registry |->
     IF u \in DOMAIN station_registry
     THEN IF u \in DOMAIN existing_registry
          THEN [existing_registry[u] EXCEPT
                  !.bluebike_ids = @ \cup station_registry[u].bluebike_ids,
                  !.all_names = @ \cup station_registry[u].all_names,
                  !.current_name = station_registry[u].current_name,
                  !.lat = station_registry[u].lat,
                  !.lng = station_registry[u].lng]
          ELSE station_registry[u]
     ELSE existing_registry[u]])

\* Mutant of MergeRegistry: the keys of the batch that are new are not
\* inserted.
MergeRegistry_OnlyKnown(station_registry, existing_registry) ==
  Table([u \in DOMAIN existing_registry |->
     IF u \in DOMAIN station_registry
     THEN [existing_registry[u] EXCEPT
             !.bluebike_ids = @ \cup station_registry[u].bluebike_ids,
             !.all_names = @ \cup station_registry[u].all_names,
             !.current_name = station_registry[u].current_name]
     ELSE existing_registry[u]])

\* Lines 427-441: the batch registry folded into a copy of the cumulative one.
MergeRegistry(station_registry, existing_registry) ==
  Table([u \in DOMAIN existing_registry \cup DOMAIN station_registry |->
     IF u \in DOMAIN station_registry
     THEN IF u \in DOMAIN existing_registry
          THEN [existing_registry[u] EXCEPT
                  !.bluebike_ids = @ \cup station_registry[u].bluebike_ids,
                  !.all_names = @ \cup station_registry[u].all_names,
                  !.current_name = station_registry[u].current_name]
          ELSE station_registry[u]
     ELSE existing_registry[u]])

\* Lines 449-459: the station entry created for a start uuid seen first.
NewStation(row, merged_registry) ==
  LET u == row.start_station_uuid
      known == u \in DOMAIN merged_registry
  IN  [ uuid |-> u,
        name |-> IF known THEN merged_registry[u].current_name ELSE row.start_station_name,
        lat |-> IF known THEN <<merged_registry[u].lat>> ELSE << >>,
        lng |-> IF known THEN <<merged_registry[u].lng>> ELSE << >>,
        bluebike_ids |-> IF known THEN merged_registry[u].bluebike_ids ELSE {},
        all_names |-> IF known THEN merged_registry[u].all_names ELSE {row.start_station_name},
        destinations |-> EmptyDict ]

\* Lines 467-476: the destination entry built from a row of the batch table.
NewDestination(row, merged_registry) ==
  LET e == row.end_station_uuid
  IN  [ uuid |-> e,
        name |-> IF e \in DOMAIN merged_registry
                 THEN merged_registry[e].current_name
                 ELSE row.end_station_name,
        fastest_time_minutes |-> row.fastest_time_minutes,
        fastest_time_formatted |-> FormatTime(row.fastest_time_minutes),
        trip_count |-> row.trip_count,
        distance_km |-> Round2(row.distance_km),
        ride_id |-> row.ride_id,
        date |-> Strftime(row.started_at) ]

\* Mutant of MergeDestination: an existing entry is never replaced.
MergeDestination_KeepFirst(destinations, row, merged_registry) ==
  LET e == row.end_station_uuid
  IN  IF e \notin DOMAIN destinations
      THEN Put(destinations, e, NewDestination(row, merged_registry))
      ELSE [destinations EXCEPT ![e].trip_count = @ + row.trip_count]

\* Mutant of MergeDestination: the comparison is turned around.
MergeDestination_Slower(destinations, row, merged_registry) ==
  LET e == row.end_station_uuid
  IN  IF e \notin DOMAIN destinations
         \/ row.fastest_time_minutes > destinations[e].fastest_time_minutes
      THEN Put(destinations, e, NewDestination(row, merged_registry))
      ELSE [destinations EXCEPT ![e].trip_count = @ + row.trip_count]

\* Mutant of MergeDestination: an equal time replaces the entry too.
MergeDestination_OnTie(destinations, row, merged_registry) ==
  LET e == row.end_station_uuid
  IN  IF e \notin DOMAIN destinations
         \/ row.fastest_time_minutes <= destinations[e].fastest_time_minutes
      THEN Put(destinations, e, NewDestination(row, merged_registry))
      ELSE [destinations EXCEPT ![e].trip_count = @ + row.trip_count]

\* Mutant of MergeDestination: a faster time is taken, the ride that is the
\* evidence is not.
MergeDestination_StaleEvidence(destinations, row, merged_registry) ==
  LET e == row.end_station_uuid
  IN  IF e \notin DOMAIN destinations
      THEN Put(destinations, e, NewDestination(row, merged_registry))
      ELSE IF row.fastest_time_minutes < destinations[e].fastest_time_minutes
           THEN Put(destinations, e,
                    [NewDestination(row, merged_registry) EXCEPT
                       !.ride_id = destinations[e].ride_id,
                       !.date = destinations[e].date])
           ELSE [destinations EXCEPT ![e].trip_count = @ + row.trip_count]

\* Mutant of MergeDestination: a faster time is taken, the formatted text is
\* left as it was.
MergeDestination_StaleFormat(destinations, row, merged_registry) ==
  LET e == row.end_station_uuid
  IN  IF e \notin DOMAIN destinations
      THEN Put(destinations, e, NewDestination(row, merged_registry))
      ELSE IF row.fastest_time_minutes < destinations[e].fastest_time_minutes
           THEN Put(destinations, e,
                    [NewDestination(row, merged_registry) EXCEPT
                       !.fastest_time_formatted = destinations[e].fastest_time_formatted])
           ELSE [destinations EXCEPT ![e].trip_count = @ + row.trip_count]

\* Mutant of MergeDestination: the batch's count is added to every other
\* destination of the start station too.
MergeDestination_TouchesAll(destinations, row, merged_registry) ==
  LET e == row.end_station_uuid
      merged == IF e \notin DOMAIN destinations
                   \/ row.fastest_time_minutes < destinations[e].fastest_time_minutes
                THEN Put(destinations, e, NewDestination(row, merged_registry))
                ELSE [destinations EXCEPT ![e].trip_count = @ + row.trip_count]
  IN  Table([d \in DOMAIN merged |->
        IF d = e THEN merged[d]
        ELSE [merged[d] EXCEPT !.trip_count = @ + row.trip_count]])

\* Lines 461-479: one row of the batch table against the destinations of
\* its start station.
MergeDestination(destinations, row, merged_registry) ==
  LET e == row.end_station_uuid
      current_time == row.fastest_time_minutes
  IN  IF e \notin DOMAIN destinations
         \/ current_time < destinations[e].fastest_time_minutes
      THEN Put(destinations, e, NewDestination(row, merged_registry))
      ELSE [destinations EXCEPT ![e].trip_count = @ + row.trip_count]

\* Lines 443-479: the loop over the rows of the batch table.  The rows of
\* a batch table have distinct (start, end) pairs, so the order in which
\* the loop takes them does not show in its result.
RECURSIVE ApplyRows(_, _, _)
ApplyRows(stations, rows, merged_registry) ==
  IF rows = {} THEN stations
  ELSE LET row == CHOOSE r \in rows : TRUE
           s == row.start_station_uuid
           station == IF s \in DOMAIN stations THEN stations[s]
                      ELSE NewStation(row, merged_registry)
           updated == [station EXCEPT
                         !.destinations = MergeDestination(@, row, merged_registry)]
       IN  ApplyRows(Put(stations, s, updated), rows \ {row}, merged_registry)

create_station_data(fastest_times_df, station_registry, existing_stations, existing_registry) ==
  LET merged_registry == MergeRegistry(station_registry, existing_registry)
  IN  [ stations |-> ApplyRows(existing_stations, fastest_times_df, merged_registry),
        merged_registry |-> merged_registry ]

\* Lines 675-678 of main: a month's trips turned into the batch registry and
\* the batch table.
ComputeBatch(m, batch) ==
  LET raw == TripRows(m, batch)
      station_registry == create_station_registry(raw)
      df == add_station_uuids_to_dataframe(raw, station_registry)
  IN  [ station_registry |-> station_registry,
        fastest_times |-> calculate_fastest_times(df) ]

\* ComputeBatch of every batch the specifications use, computed once.
BatchNumbers == 1..(IF NumMonths > MaxMerges THEN NumMonths ELSE MaxMerges)

ComputedBatches ==
  Table([x \in BatchNumbers \X (Batches(MaxTrips) \cup SampleFiles \cup AliasBatches
                                   \cup FrameBatches) |->
           ComputeBatch(x[1], x[2])])

ProcessBatch(m, batch) == ComputedBatches[<<m, batch>>]

\* ------------------------------------------------------------------------
\* Files: the listing, data/stations.json and backups/stations_<month>.json
\* ------------------------------------------------------------------------
Months == 1..NumMonths

\* A file name "<YYYYMM><rest>"; month m stands for the m-th YYYYMM.
FileName(m) == [month |-> m, rest |-> "-bluebikes-tripdata.zip"]

\* fetch_all_data_files: the sorted listing, one file per month.
fetch_all_data_files == [m \in Months |-> FileName(m)]

\* A second file name of month m that passes the filter of lines 135-139
\* ('.zip' at the end, 'bluebikes' inside, YYYYMM from 201805 on).  In the
\* order of sorted() it comes after FileName(m): '_' is greater than '.'.
SecondFile(m) == [month |-> m, rest |-> "-bluebikes-tripdata_v2.zip"]

\* sorted(zip_files) of a bucket that holds FileName(m) for the months up to
\* n and SecondFile(m) for the months of dups.
RECURSIVE ListingUpTo(_, _)
ListingUpTo(n, dups) ==
  IF n = 0 THEN << >>
  ELSE ListingUpTo(n - 1, dups) \o <<FileName(n)>>
         \o (IF n \in dups THEN <<SecondFile(n)>> ELSE << >>)

\* The listings fetch_all_data_files can return under SpecListing.
Listings ==
  {ListingUpTo(NumMonths, dups) :
      dups \in {d \in SUBSET Months : Cardinality(d) <= MaxSecondFiles}}

extract_month_from_filename(filename) == filename.month

\* Lines 661-665: the first file of the listing that starts with the month.
FilenameFor(month, files) ==
  LET i == CHOOSE i \in 1..Len(files) :
             /\ files[i].month = month
             /\ \A j \in 1..(i - 1) : files[j].month # month
  IN  files[i]

\* list.sort() on a list of months.
RECURSIVE SortMonths(_)
SortMonths(s) ==
  IF s = << >> THEN << >>
  ELSE LET rest == SortMonths(Tail(s))
           before == SelectSeq(rest, LAMBDA x : x <= Head(s))
           after == SelectSeq(rest, LAMBDA x : x > Head(s))
       IN  before \o <<Head(s)>> \o after

\* A file that does not exist, and a file holding a truncated JSON text.
Absent == [kind |-> "absent"]
Corrupt == [kind |-> "corrupt"]

EmptyMetadata == [processed_months |-> << >>, total_stations |-> 0]

\* Mutant of StationsJson: every pair is written with one attempt.
StationsJson_OneAttempt(stations, station_registry, meta) ==
  [ kind |-> "new",
    metadata |-> meta,
    station_registry |-> station_registry,
    station_pairs |->
      [s \in DOMAIN stations |->
         [e \in DOMAIN stations[s].destinations |->
            LET dest_data == stations[s].destinations[e]
            IN  [ attempts |-> 1,
                  fastest_time_minutes |-> dest_data.fastest_time_minutes,
                  fastest_time_formatted |-> dest_data.fastest_time_formatted,
                  fastest_set_at |-> dest_data.date,
                  ride_id |-> dest_data.ride_id,
                  distance_km |-> dest_data.distance_km ]]] ]

\* Lines 491-516 of generate_hugo_content: the text of data/stations.json.
StationsJson(stations, station_registry, meta) ==
  [ kind |-> "new",
    metadata |-> meta,
    station_registry |-> station_registry,
    station_pairs |->
      [s \in DOMAIN stations |->
         [e \in DOMAIN stations[s].destinations |->
            LET dest_data == stations[s].destinations[e]
            IN  [ attempts |-> dest_data.trip_count,
                  fastest_time_minutes |-> dest_data.fastest_time_minutes,
                  fastest_time_formatted |-> dest_data.fastest_time_formatted,
                  fastest_set_at |-> dest_data.date,
                  ride_id |-> dest_data.ride_id,
                  distance_km |-> dest_data.distance_km ]]] ]

\* Lines 690-698 of main: the text of backups/stations_<month>.json, the
\* flat shape with the keys _metadata and _station_registry.
BackupJson(stations, station_registry, meta) ==
  [ kind |-> "legacy",
    u_metadata |-> meta,
    u_station_registry |-> station_registry,
    stations |-> stations ]

\* load_existing_data on the content of data/stations.json.  ok is FALSE
\* when json.load raises (the error is not a FileNotFoundError).
load_existing_data(file) ==
  IF file.kind = "absent"
  THEN [ok |-> TRUE, data |-> EmptyDict, station_registry |-> EmptyDict,
        metadata |-> EmptyMetadata]
  ELSE IF file.kind = "new"
  THEN LET reg == file.station_registry
           station(u, destinations) ==
             [ uuid |-> u,
               name |-> IF u \in DOMAIN reg THEN reg[u].current_name ELSE "Unknown",
               lat |-> IF u \in DOMAIN reg THEN <<reg[u].lat>> ELSE << >>,
               lng |-> IF u \in DOMAIN reg THEN <<reg[u].lng>> ELSE << >>,
               bluebike_ids |-> IF u \in DOMAIN reg THEN reg[u].bluebike_ids ELSE {},
               all_names |-> IF u \in DOMAIN reg THEN reg[u].all_names ELSE {},
               destinations |-> destinations ]
           destination(e, dest_data) ==
             [ uuid |-> e,
               name |-> IF e \in DOMAIN reg THEN reg[e].current_name ELSE "Unknown",
               fastest_time_minutes |-> dest_data.fastest_time_minutes,
               fastest_time_formatted |-> dest_data.fastest_time_formatted,
               trip_count |-> dest_data.attempts,
               distance_km |-> dest_data.distance_km,
               ride_id |-> dest_data.ride_id,
               date |-> dest_data.fastest_set_at ]
       IN  [ ok |-> TRUE,
             data |-> [s \in DOMAIN file.station_pairs |->
                         station(s, [e \in DOMAIN file.station_pairs[s] |->
                                       destination(e, file.station_pairs[s][e])])],
             station_registry |-> reg,
             metadata |-> file.metadata ]
  ELSE IF file.kind = "legacy"
  THEN [ok |-> TRUE, data |-> file.stations,
        station_registry |-> file.u_station_registry,
        metadata |-> file.u_metadata]
  ELSE [ok |-> FALSE, data |-> EmptyDict, station_registry |-> EmptyDict,
        metadata |-> EmptyMetadata]

\* ------------------------------------------------------------------------
\* What main's dictionaries hold when create_station_data raises
\* ------------------------------------------------------------------------
\* create_station_data works on shallow copies (lines 426, 428): entries
\* added to the copies are lost with them, while the station, destination
\* and registry dictionaries that existed before are shared with main's
\* dictionaries and are changed in place.  applied is the set of rows the
\* loop of line 443 had completed when the exception was raised.
PartialMerge(applied, station_registry, existing_stations, existing_registry) ==
  LET merged == MergeRegistry(station_registry, existing_registry)
      copy == ApplyRows(existing_stations, applied, merged)
  IN  [ stations |-> Table([s \in DOMAIN existing_stations |-> copy[s]]),
        merged_registry |-> Table([u \in DOMAIN existing_registry |-> merged[u]]) ]

\* ------------------------------------------------------------------------
\* State
\* ------------------------------------------------------------------------
VARIABLES
  all_files,           \* the listing of the bucket (sorted file names)
  bucket,              \* file name -> the qualifying trips of the file
  disk,                \* data/stations.json
  backups,             \* month -> backups/stations_<month>.json
  pc,                  \* "idle" (no process), "loop" (line 659), "final" (line 715)
  runs,                \* number of runs of main started so far
  outcome,             \* how the last run ended: "none", "ok", "error", "killed"
  event,               \* what the last step did, and for which month
  stations_data,       \* main's stations_data: start uuid -> station with destinations
  merged_registry,     \* main's merged_registry: uuid -> station identity
  metadata,            \* main's metadata (processed_months, total_stations)
  processed_months,    \* main's processed_months: the ledger as a set, at startup
  unprocessed_months,  \* main's unprocessed_months: the work list
  idx,                 \* position of the for loop of line 659 in the work list
  hist                 \* history (SpecMerge): the batches merged so far

vars ==
  << all_files, bucket, disk, backups, pc, runs, outcome, event, stations_data,
     merged_registry, metadata, processed_months, unprocessed_months, idx, hist >>

inputs == <<all_files, bucket>>
Event(kind, month) == [kind |-> kind, month |-> month]

\* The state of a machine on which main is not running.
NoProcess ==
  /\ stations_data = EmptyDict
  /\ merged_registry = EmptyDict
  /\ metadata = EmptyMetadata
  /\ processed_months = {}
  /\ unprocessed_months = << >>
  /\ idx = 0

Init ==
  /\ all_files = fetch_all_data_files
  /\ bucket \in [{all_files[i] : i \in 1..Len(all_files)} -> SampleFiles]
  /\ disk = Absent
  /\ backups = [m \in Months |-> Absent]
  /\ pc = "idle"
  /\ runs = 0
  /\ outcome = "none"
  /\ event = Event("none", 0)
  /\ NoProcess
  /\ hist = << >>

\* The process ends (return, uncaught exception or kill): its memory is gone.
Exit(result) ==
  /\ pc' = "idle"
  /\ outcome' = result
  /\ stations_data' = EmptyDict
  /\ merged_registry' = EmptyDict
  /\ metadata' = EmptyMetadata
  /\ processed_months' = {}
  /\ unprocessed_months' = << >>
  /\ idx' = 0

\* ------------------------------------------------------------------------
\* main, lines 623-657: startup
\* ------------------------------------------------------------------------
\* Mutant of WorkList: the months already processed are not filtered out.
WorkList_NoFilter(files, processed) ==
  SortMonths([i \in 1..Len(files) |-> extract_month_from_filename(files[i])])

\* Mutant of WorkList: the work list runs from the newest month to the
\* oldest.
WorkList_Descending(files, processed) ==
  LET all_months == [i \in 1..Len(files) |-> extract_month_from_filename(files[i])]
      sorted == SortMonths(SelectSeq(all_months, LAMBDA month : month \notin processed))
  IN  [i \in 1..Len(sorted) |-> sorted[Len(sorted) + 1 - i]]

WorkList(files, processed) ==
  LET all_months == [i \in 1..Len(files) |-> extract_month_from_filename(files[i])]
  IN  SortMonths(SelectSeq(all_months, LAMBDA month : month \notin processed))

\* load_existing_data raises on an unreadable data/stations.json: the error
\* reaches the handler of line 723 and is raised again.
StartLoadError ==
  /\ pc = "idle" /\ runs < MaxRuns
  /\ ~load_existing_data(disk).ok
  /\ runs' = runs + 1
  /\ event' = Event("load_error", 0)
  /\ Exit("error")
  /\ UNCHANGED <<inputs, disk, backups, hist>>

\* Every month of the listing is in processed_months: return at line 648.
StartNothingToDo ==
  /\ pc = "idle" /\ runs < MaxRuns
  /\ LET loaded == load_existing_data(disk)
         processed == {loaded.metadata.processed_months[i] :
                          i \in 1..Len(loaded.metadata.processed_months)}
     IN  /\ loaded.ok
         /\ WorkList(all_files, processed) = << >>
  /\ runs' = runs + 1
  /\ event' = Event("nothing_to_do", 0)
  /\ Exit("ok")
  /\ UNCHANGED <<inputs, disk, backups, hist>>

\* Lines 630-657: the state is loaded and the work list computed.
StartRun ==
  /\ pc = "idle" /\ runs < MaxRuns
  /\ LET loaded == load_existing_data(disk)
         processed == {loaded.metadata.processed_months[i] :
                          i \in 1..Len(loaded.metadata.processed_months)}
     IN  /\ loaded.ok
         /\ WorkList(all_files, processed) # << >>
         /\ stations_data' = loaded.data
         /\ merged_registry' = loaded.station_registry
         /\ metadata' = loaded.metadata
         /\ processed_months' = processed
         /\ unprocessed_months' = WorkList(all_files, processed)
  /\ idx' = 1
  /\ pc' = "loop"
  /\ runs' = runs + 1
  /\ outcome' = "none"
  /\ event' = Event("start", 0)
  /\ UNCHANGED <<inputs, disk, backups, hist>>

\* ------------------------------------------------------------------------
\* main, lines 659-708: one iteration of the loop over the work list
\* ------------------------------------------------------------------------
Month == unprocessed_months[idx]

\* The batch registry and batch table of the month at hand.
MonthBatch == ProcessBatch(Month, bucket[FilenameFor(Month, all_files)])

\* The for loop takes the next month, or ends and main goes on to line 715.
NextIteration ==
  IF idx < Len(unprocessed_months)
  THEN pc' = "loop" /\ idx' = idx + 1
  ELSE pc' = "final" /\ idx' = idx

\* Mutant of ProcessMonth: the ledger is started again at every month.
ProcessMonth_LedgerReset ==
  /\ pc = "loop"
  /\ LET r == create_station_data(MonthBatch.fastest_times, MonthBatch.station_registry,
                                  stations_data, merged_registry)
         meta == [processed_months |-> <<Month>>,
                  total_stations |-> Cardinality(DOMAIN r.stations)]
     IN  /\ stations_data' = r.stations
         /\ merged_registry' = r.merged_registry
         /\ metadata' = meta
         /\ backups' = [backups EXCEPT ![Month] = BackupJson(r.stations, r.merged_registry, meta)]
  /\ event' = Event("merged", Month)
  /\ NextIteration
  /\ UNCHANGED <<inputs, disk, runs, outcome, processed_months, unprocessed_months, hist>>

\* Lines 675-703 without an exception: the batch is merged, the month is
\* appended to the ledger and the backup is written.
ProcessMonth ==
  /\ pc = "loop"
  /\ LET r == create_station_data(MonthBatch.fastest_times, MonthBatch.station_registry,
                                  stations_data, merged_registry)
         meta == [processed_months |-> Append(metadata.processed_months, Month),
                  total_stations |-> Cardinality(DOMAIN r.stations)]
     IN  /\ stations_data' = r.stations
         /\ merged_registry' = r.merged_registry
         /\ metadata' = meta
         /\ backups' = [backups EXCEPT ![Month] = BackupJson(r.stations, r.merged_registry, meta)]
  /\ event' = Event("merged", Month)
  /\ NextIteration
  /\ UNCHANGED <<inputs, disk, runs, outcome, processed_months, unprocessed_months, hist>>

\* Mutant of BatchFails: the error ends the run.
BatchFails_Aborts ==
  /\ pc = "loop"
  /\ event' = Event("batch_failed", Month)
  /\ Exit("error")
  /\ UNCHANGED <<inputs, disk, backups, runs, hist>>

\* Mutant of BatchFails: the batch registry is folded into the cumulative
\* one before the error is raised.
BatchFails_RegistryMerged ==
  /\ pc = "loop"
  /\ merged_registry' = MergeRegistry(MonthBatch.station_registry, merged_registry)
  /\ event' = Event("batch_failed", Month)
  /\ NextIteration
  /\ UNCHANGED <<inputs, disk, backups, runs, outcome, stations_data,
                 metadata, processed_months, unprocessed_months, hist>>

\* Lines 675-678 raise (download, extraction, normalisation, resolution or
\* aggregation): the handler of line 705 logs the error and continues.
BatchFails ==
  /\ pc = "loop"
  /\ event' = Event("batch_failed", Month)
  /\ NextIteration
  /\ UNCHANGED <<inputs, disk, backups, runs, outcome, stations_data, merged_registry,
                 metadata, processed_months, unprocessed_months, hist>>

\* create_station_data raises in its loop over the rows (line 443, e.g. the
\* strftime of line 475 on a missing started_at) after the rows of applied:
\* the handler of line 705 logs the error and continues.
MergeFails ==
  /\ pc = "loop"
  /\ \E applied \in SUBSET MonthBatch.fastest_times :
       /\ applied # MonthBatch.fastest_times
       /\ LET r == PartialMerge(applied, MonthBatch.station_registry,
                                stations_data, merged_registry)
          IN  /\ stations_data' = r.stations
              /\ merged_registry' = r.merged_registry
  /\ event' = Event("merge_failed", Month)
  /\ NextIteration
  /\ UNCHANGED <<inputs, disk, backups, runs, outcome, metadata, processed_months,
                 unprocessed_months, hist>>

\* The write of the backup raises (lines 696-698) after the merge and the
\* update of the metadata: the handler of line 705 logs the error and
\* continues.  The backup file is untouched (open failed) or truncated.
BackupFails ==
  /\ pc = "loop"
  /\ LET r == create_station_data(MonthBatch.fastest_times, MonthBatch.station_registry,
                                  stations_data, merged_registry)
     IN  /\ stations_data' = r.stations
         /\ merged_registry' = r.merged_registry
         /\ metadata' = [processed_months |-> Append(metadata.processed_months, Month),
                         total_stations |-> Cardinality(DOMAIN r.stations)]
  /\ \E file \in {backups[Month], Corrupt} :
       backups' = [backups EXCEPT ![Month] = file]
  /\ event' = Event("backup_failed", Month)
  /\ NextIteration
  /\ UNCHANGED <<inputs, disk, runs, outcome, processed_months, unprocessed_months, hist>>

\* ------------------------------------------------------------------------
\* main, lines 713-725: the final write, and the ways a run ends
\* ------------------------------------------------------------------------
\* generate_hugo_content writes data/stations.json and the pages; main
\* returns.
Finish ==
  /\ pc = "final"
  /\ disk' = StationsJson(stations_data, merged_registry, metadata)
  /\ event' = Event("finished", 0)
  /\ Exit("ok")
  /\ UNCHANGED <<inputs, backups, runs, hist>>

\* generate_hugo_content raises: at the open of data/stations.json (file
\* untouched), in json.dump (file truncated) or while writing the pages
\* (file written).  The handler of line 723 raises the error again.
FinishFails ==
  /\ pc = "final"
  /\ \E file \in {disk, Corrupt, StationsJson(stations_data, merged_registry, metadata)} :
       disk' = file
  /\ event' = Event("finish_failed", 0)
  /\ Exit("error")
  /\ UNCHANGED <<inputs, backups, runs, hist>>

\* Mutant of Crash: the interrupted run saves its state, the month in
\* flight entered in the ledger.
Crash_SavesState ==
  /\ pc \in {"loop", "final"}
  /\ disk' = IF pc = "loop"
             THEN StationsJson(stations_data, merged_registry,
                               [metadata EXCEPT !.processed_months = Append(@, Month)])
             ELSE disk
  /\ event' = Event("crash", IF pc = "loop" THEN Month ELSE 0)
  /\ Exit("killed")
  /\ UNCHANGED <<inputs, backups, runs, hist>>

\* The process is killed (or interrupted from the keyboard) between two
\* writes: no file changes.
Crash ==
  /\ pc \in {"loop", "final"}
  /\ event' = Event("crash", IF pc = "loop" THEN Month ELSE 0)
  /\ Exit("killed")
  /\ UNCHANGED <<inputs, disk, backups, runs, hist>>

\* The process is killed while json.dump writes the backup of the month.
CrashInBackup ==
  /\ pc = "loop"
  /\ backups' = [backups EXCEPT ![Month] = Corrupt]
  /\ event' = Event("crash_in_backup", Month)
  /\ Exit("killed")
  /\ UNCHANGED <<inputs, disk, runs, hist>>

\* The process is killed while json.dump writes data/stations.json.
CrashInFinalWrite ==
  /\ pc = "final"
  /\ disk' = Corrupt
  /\ event' = Event("crash_in_final_write", 0)
  /\ Exit("killed")
  /\ UNCHANGED <<inputs, backups, runs, hist>>

Next ==
  \/ StartLoadError
  \/ StartNothingToDo
  \/ StartRun
  \/ ProcessMonth
  \/ BatchFails
  \/ MergeFails
  \/ BackupFails
  \/ Finish
  \/ FinishFails
  \/ Crash
  \/ CrashInBackup
  \/ CrashInFinalWrite

Spec == Init /\ [][Next]_vars

\* ------------------------------------------------------------------------
\* SpecListing: the runs of main over listings in which a month can have
\* two files
\* ------------------------------------------------------------------------
InitListing ==
  /\ all_files \in Listings
  /\ bucket \in [{all_files[i] : i \in 1..Len(all_files)} -> SampleFiles]
  /\ disk = Absent
  /\ backups = [m \in Months |-> Absent]
  /\ pc = "idle"
  /\ runs = 0
  /\ outcome = "none"
  /\ event = Event("none", 0)
  /\ NoProcess
  /\ hist = << >>

SpecListing == InitListing /\ [][Next]_vars

\* ------------------------------------------------------------------------
\* SpecMerge: batches merged one after the other into the empty state
\* ------------------------------------------------------------------------
InitMerge ==
  /\ all_files = << >>
  /\ bucket = EmptyDict
  /\ disk = Absent
  /\ backups = EmptyDict
  /\ pc = "merge"
  /\ runs = 0
  /\ outcome = "none"
  /\ event = Event("none", 0)
  /\ NoProcess
  /\ hist = << >>

\* Lines 675-683 of main for one batch, no step failing.
MergeBatch ==
  /\ pc = "merge"
  /\ Len(hist) < MaxMerges
  /\ \E batch \in Batches(MaxTrips) :
       LET b == ProcessBatch(Len(hist) + 1, batch)
           r == create_station_data(b.fastest_times, b.station_registry,
                                    stations_data, merged_registry)
       IN  /\ stations_data' = r.stations
           /\ merged_registry' = r.merged_registry
           /\ hist' = Append(hist, batch)
  /\ UNCHANGED <<inputs, disk, backups, pc, runs, outcome, event, metadata,
                 processed_months, unprocessed_months, idx>>

NextMerge == MergeBatch

SpecMerge == InitMerge /\ [][NextMerge]_vars

\* ------------------------------------------------------------------------
\* SpecKey: generate_station_uuid applied to coordinates
\* ------------------------------------------------------------------------
\* hist lists the calls made so far: the arguments and the key returned.
InitKey ==
  /\ all_files = << >>
  /\ bucket = EmptyDict
  /\ disk = Absent
  /\ backups = EmptyDict
  /\ pc = "key"
  /\ runs = 0
  /\ outcome = "none"
  /\ event = Event("none", 0)
  /\ NoProcess
  /\ hist = << >>

CallKey ==
  /\ pc = "key"
  /\ Len(hist) < MaxCalls
  /\ \E lat \in KeyCoords, lng \in KeyCoords :
       hist' = Append(hist, [lat |-> lat, lng |-> lng,
                             uuid |-> generate_station_uuid(lat, lng)])
  /\ UNCHANGED <<inputs, disk, backups, pc, runs, outcome, event, stations_data,
                 merged_registry, metadata, processed_months, unprocessed_months, idx>>

NextKey == CallKey

SpecKey == InitKey /\ [][NextKey]_vars

\* ------------------------------------------------------------------------
\* SpecRegistry: batch registries folded into the cumulative registry
\* ------------------------------------------------------------------------
\* create_station_registry of every batch of SpecRegistry, computed once.
ComputedRegistries ==
  Table([batch \in StationBatches |-> create_station_registry(TripRows(1, batch))])

InitRegistry ==
  /\ all_files = << >>
  /\ bucket = EmptyDict
  /\ disk = Absent
  /\ backups = EmptyDict
  /\ pc = "registry"
  /\ runs = 0
  /\ outcome = "none"
  /\ event = Event("none", 0)
  /\ NoProcess
  /\ hist = << >>

\* Line 353 and lines 427-441 for one batch: the batch registry is built
\* and folded into the cumulative registry (the registry part of
\* create_station_data does not read the table).  hist holds the batch
\* folded last.
RegistryBatch ==
  /\ pc = "registry"
  /\ \E batch \in StationBatches :
       /\ merged_registry' = MergeRegistry(ComputedRegistries[batch], merged_registry)
       /\ hist' = <<batch>>
  /\ UNCHANGED <<inputs, disk, backups, pc, runs, outcome, event, stations_data,
                 metadata, processed_months, unprocessed_months, idx>>

NextRegistry == RegistryBatch

SpecRegistry == InitRegistry /\ [][NextRegistry]_vars

\* ------------------------------------------------------------------------
\* SpecAlias: batches whose trips start at either observation of one dock
\* ------------------------------------------------------------------------
InitAlias ==
  /\ all_files = << >>
  /\ bucket = EmptyDict
  /\ disk = Absent
  /\ backups = EmptyDict
  /\ pc = "alias"
  /\ runs = 0
  /\ outcome = "none"
  /\ event = Event("none", 0)
  /\ NoProcess
  /\ hist = << >>

\* Lines 675-683 of main for one batch, no step failing.
MergeAlias ==
  /\ pc = "alias"
  /\ Len(hist) < MaxMerges
  /\ \E batch \in AliasBatches :
       LET b == ProcessBatch(Len(hist) + 1, batch)
           r == create_station_data(b.fastest_times, b.station_registry,
                                    stations_data, merged_registry)
       IN  /\ stations_data' = r.stations
           /\ merged_registry' = r.merged_registry
           /\ hist' = Append(hist, batch)
  /\ UNCHANGED <<inputs, disk, backups, pc, runs, outcome, event, metadata,
                 processed_months, unprocessed_months, idx>>

NextAlias == MergeAlias

SpecAlias == InitAlias /\ [][NextAlias]_vars

\* ------------------------------------------------------------------------
\* SpecFrame: batches that leave pairs and registry keys out
\* ------------------------------------------------------------------------
InitFrame ==
  /\ all_files = << >>
  /\ bucket = EmptyDict
  /\ disk = Absent
  /\ backups = EmptyDict
  /\ pc = "frame"
  /\ runs = 0
  /\ outcome = "none"
  /\ event = Event("none", 0)
  /\ NoProcess
  /\ hist = << >>

\* Lines 675-683 of main for one batch, no step failing.
MergeFrame ==
  /\ pc = "frame"
  /\ Len(hist) < MaxMerges
  /\ \E batch \in FrameBatches :
       LET b == ProcessBatch(Len(hist) + 1, batch)
           r == create_station_data(b.fastest_times, b.station_registry,
                                    stations_data, merged_registry)
       IN  /\ stations_data' = r.stations
           /\ merged_registry' = r.merged_registry
           /\ hist' = Append(hist, batch)
  /\ UNCHANGED <<inputs, disk, backups, pc, runs, outcome, event, metadata,
                 processed_months, unprocessed_months, idx>>

NextFrame == MergeFrame

SpecFrame == InitFrame /\ [][NextFrame]_vars

\* ------------------------------------------------------------------------
\* SpecResolve: add_station_uuids_to_dataframe applied to a frame and a
\* registry
\* ------------------------------------------------------------------------
InitResolve ==
  /\ all_files = << >>
  /\ bucket = EmptyDict
  /\ disk = Absent
  /\ backups = EmptyDict
  /\ pc = "resolve"
  /\ runs = 0
  /\ outcome = "none"
  /\ event = Event("none", 0)
  /\ NoProcess
  /\ hist = << >>

\* One call of add_station_uuids_to_dataframe on the frame of a batch, with
\* the registry of a batch that may be another one.  hist holds the call:
\* the frame's batch, the registry's batch, the frame returned and the
\* number printed at line 114 (0 when nothing is printed).
CallResolve ==
  /\ pc = "resolve"
  /\ hist = << >>
  /\ \E batch \in StationBatches, other \in StationBatches :
       LET df == TripRows(1, batch)
           result == add_station_uuids_to_dataframe(df, ComputedRegistries[other])
           before_filter == Len(df)
           after_filter == Len(result)
       IN  hist' = << [ batch |-> batch, other |-> other, df |-> result,
                        filtered_out |-> before_filter - after_filter ] >>
  /\ UNCHANGED <<inputs, disk, backups, pc, runs, outcome, event, stations_data,
                 merged_registry, metadata, processed_months, unprocessed_months, idx>>

NextResolve == CallResolve

SpecResolve == InitResolve /\ [][NextResolve]_vars

\* ------------------------------------------------------------------------
\* Views used by the properties
\* ------------------------------------------------------------------------
\* The ordered pairs of a cumulative table, and the entry of a pair.
Pairs(stations) ==
  UNION {{<<s, e>> : e \in DOMAIN stations[s].destinations} : s \in DOMAIN stations}

Dest(stations, p) == stations[p[1]].destinations[p[2]]

\* The ordered pair of identity keys of a trip.
TripPair(t) ==
  << generate_station_uuid(Obs[t.s].lat, Obs[t.s].lng),
     generate_station_uuid(Obs[t.e].lat, Obs[t.e].lng) >>

\* The durations of a batch's trips of pair p, one element per trip.
TripsOf(batch, p) == {j \in 1..Len(batch) : TripPair(batch[j]) = p}

MinOf(S) == CHOOSE x \in S : \A y \in S : x <= y

\* All trips of pair p in the merged history, as (batch, position).
HistTrips(p) ==
  UNION {{<<i, j>> : j \in TripsOf(hist[i], p)} : i \in 1..Len(hist)}

HistPairs == UNION {{TripPair(hist[i][j]) : j \in 1..Len(hist[i])} : i \in 1..Len(hist)}

\* The batch table of the batch merged by the step that leads to the primed
\* state (the last batch of hist').
LastBatchTable == ProcessBatch(Len(hist'), hist'[Len(hist')]).fastest_times

RowPair(row) == <<row.start_station_uuid, row.end_station_uuid>>

Merged == hist' # hist

AB == TripPair([s |-> "a", e |-> "b", dur |-> 300])

\* ------------------------------------------------------------------------
\* Properties of the merge (SpecMerge)
\* ------------------------------------------------------------------------
\* C1: when a batch's fastest time for a pair already in the cumulative
\* table is strictly smaller than the cumulative one, the merge takes the
\* batch's time and evidence and sets trip_count to cumulative + batch.
C1_ImprovementAccumulates ==
  [][Merged =>
       \A row \in LastBatchTable :
         LET p == RowPair(row)
         IN  (p \in Pairs(stations_data)
               /\ row.fastest_time_minutes < Dest(stations_data, p).fastest_time_minutes)
             => /\ Dest(stations_data', p).fastest_time_minutes = row.fastest_time_minutes
                /\ Dest(stations_data', p).ride_id = row.ride_id
                /\ Dest(stations_data', p).date = Strftime(row.started_at)
                /\ Dest(stations_data', p).trip_count
                     = Dest(stations_data, p).trip_count + row.trip_count]_vars

\* C2: the trip_count of every pair is the number of trips of the pair in
\* all merged batches.
C2_AttemptsCountAllTrips ==
  \A p \in Pairs(stations_data) :
     Dest(stations_data, p).trip_count = Cardinality(HistTrips(p))

\* C3: the pairs of the table are the pairs with a trip in a merged batch,
\* and the fastest time of each is the minimum duration over all its trips
\* in all merged batches, in whatever order the batches were merged.
C3_FastestIsMinimum ==
  /\ Pairs(stations_data) = HistPairs
  /\ \A p \in Pairs(stations_data) :
       Dest(stations_data, p).fastest_time_minutes
         = MinOf({hist[x[1]][x[2]].dur : x \in HistTrips(p)})

\* C3 witness: a slower batch, then a faster one for the same pair.
C3_Witness ==
  /\ hist = << <<[s |-> "a", e |-> "b", dur |-> 450]>>,
               <<[s |-> "b", e |-> "a", dur |-> 450], [s |-> "a", e |-> "b", dur |-> 300]>> >>
  /\ Dest(stations_data, AB).fastest_time_minutes = 300

\* C4: a pair of the table stays in the table and its fastest time never
\* grows in a merge.
C4_FastestNonIncreasing ==
  [][\A p \in Pairs(stations_data) :
        /\ p \in Pairs(stations_data')
        /\ Dest(stations_data', p).fastest_time_minutes
             <= Dest(stations_data, p).fastest_time_minutes]_vars

\* C4 witness: a faster batch, then a slower one for the same pair; the
\* fastest time is still the first batch's.
C4_Witness ==
  /\ Len(hist) = 2
  /\ TripsOf(hist[1], AB) # {} /\ TripsOf(hist[2], AB) # {}
  /\ MinOf({hist[1][j].dur : j \in TripsOf(hist[1], AB)}) = 300
  /\ MinOf({hist[2][j].dur : j \in TripsOf(hist[2], AB)}) = 450
  /\ Dest(stations_data, AB).fastest_time_minutes = 300

\* C5: the trip_count of a pair never shrinks in a merge.
C5_AttemptsNonDecreasing ==
  [][\A p \in Pairs(stations_data) :
        /\ p \in Pairs(stations_data')
        /\ Dest(stations_data', p).trip_count >= Dest(stations_data, p).trip_count]_vars

\* The table obtained by merging the first two batches of the history in
\* the other order into the empty state.
SwappedMerge ==
  LET b2 == ProcessBatch(1, hist[2])
      r2 == create_station_data(b2.fastest_times, b2.station_registry, EmptyDict, EmptyDict)
      b1 == ProcessBatch(2, hist[1])
  IN  create_station_data(b1.fastest_times, b1.station_registry,
                          r2.stations, r2.merged_registry).stations

\* C6: two batches merged in either order give every pair the same fastest
\* time and the same trip_count.
C6_MergeCommutes ==
  Len(hist) = 2 =>
    /\ Pairs(SwappedMerge) = Pairs(stations_data)
    /\ \A p \in Pairs(stations_data) :
         /\ Dest(SwappedMerge, p).fastest_time_minutes
              = Dest(stations_data, p).fastest_time_minutes
         /\ Dest(SwappedMerge, p).trip_count = Dest(stations_data, p).trip_count

\* C7: when a batch's fastest time for a pair already in the table is not
\* strictly smaller (slower or equal), the fastest time and the evidence
\* stay and trip_count grows by exactly the batch's count.
C7_NoImprovementKeepsEvidence ==
  [][Merged =>
       \A row \in LastBatchTable :
         LET p == RowPair(row)
         IN  (p \in Pairs(stations_data)
               /\ ~(row.fastest_time_minutes < Dest(stations_data, p).fastest_time_minutes))
             => /\ Dest(stations_data', p).fastest_time_minutes
                     = Dest(stations_data, p).fastest_time_minutes
                /\ Dest(stations_data', p).fastest_time_formatted
                     = Dest(stations_data, p).fastest_time_formatted
                /\ Dest(stations_data', p).ride_id = Dest(stations_data, p).ride_id
                /\ Dest(stations_data', p).date = Dest(stations_data, p).date
                /\ Dest(stations_data', p).trip_count
                     = Dest(stations_data, p).trip_count + row.trip_count]_vars

\* C7 witness: one trip at 5:00, then a batch of two trips of the same pair
\* whose fastest is 5:00 again: the first trip is still the evidence, and
\* the count is 1 + 2.
C7_Witness ==
  /\ hist = << <<[s |-> "a", e |-> "b", dur |-> 300]>>,
               <<[s |-> "a", e |-> "b", dur |-> 450], [s |-> "a", e |-> "b", dur |-> 300]>> >>
  /\ Dest(stations_data, AB).ride_id = <<1, 1>>
  /\ Dest(stations_data, AB).trip_count = 3

\* ------------------------------------------------------------------------
\* Properties of the runs (Spec)
\* ------------------------------------------------------------------------
\* The ledger a run would load from a file, as a set; empty when the file
\* cannot be loaded.
LedgerOf(file) ==
  LET meta == load_existing_data(file).metadata
  IN  {meta.processed_months[i] : i \in 1..Len(meta.processed_months)}

\* The file of month m contributes to a table: every pair of the month's
\* batch table is in the table with a time at most the month's and a count
\* at least the month's.
Contributes(m, stations) ==
  \A row \in ProcessBatch(m, bucket[FilenameFor(m, all_files)]).fastest_times :
     /\ RowPair(row) \in Pairs(stations)
     /\ Dest(stations, RowPair(row)).fastest_time_minutes <= row.fastest_time_minutes
     /\ Dest(stations, RowPair(row)).trip_count >= row.trip_count

\* C8: after a crash in the loop over the months, the state the next run
\* loads holds the ledger entry and the contribution of every month whose
\* merge and backup write had completed.
C8_ResumableAtBatchGranularity ==
  (outcome = "killed" /\ event.kind \in {"crash", "crash_in_backup"} /\ event.month # 0)
    => \A m \in Months :
         backups[m].kind = "legacy"
           => /\ load_existing_data(disk).ok
              /\ m \in LedgerOf(disk)
              /\ Contributes(m, load_existing_data(disk).data)

\* C9: a run merges no month that is in the persisted ledger it started
\* from, and a run that finds every month of the listing in the ledger
\* ends at once and leaves data/stations.json and the backups as they are.
C9_IdempotentSkip ==
  [][/\ event'.kind \in {"merged", "merge_failed", "backup_failed"}
          => /\ event'.month \notin LedgerOf(disk)
             /\ event'.month \notin processed_months
     /\ (pc = "idle" /\ runs' = runs + 1 /\ load_existing_data(disk).ok
           /\ \A i \in 1..Len(all_files) :
                 extract_month_from_filename(all_files[i]) \in LedgerOf(disk))
          => /\ disk' = disk
             /\ backups' = backups
             /\ pc' = "idle"
             /\ outcome' = "ok"]_vars

\* C9 witness: a second run that found every month in the ledger written by
\* the first and ended without a change.
C9_Witness ==
  /\ runs = 2
  /\ event.kind = "nothing_to_do"
  /\ outcome = "ok"
  /\ LedgerOf(disk) = Months
  /\ \A m \in Months : Contributes(m, load_existing_data(disk).data)

\* C10: when the merge of a month or the write of its backup raises, the
\* run ends with an error and the month is not in processed_months.
C10_MergeFailureAborts ==
  [][event'.kind \in {"merge_failed", "backup_failed"}
       => /\ pc' = "idle"
          /\ outcome' = "error"
          /\ \A i \in 1..Len(metadata'.processed_months) :
                metadata'.processed_months[i] # event'.month]_vars

\* C11: a failure or a crash during the write of data/stations.json or of
\* a month's backup leaves the file as it was before the write (or holding
\* the complete new text): a loadable file is never left damaged.
C11_CheckpointAtomic ==
  [][/\ (event'.kind \in {"crash_in_final_write", "finish_failed"} /\ disk.kind = "new")
          => disk' \in {disk, StationsJson(stations_data, merged_registry, metadata)}
     /\ event'.kind \in {"crash_in_backup", "backup_failed"}
          => \A m \in Months :
                backups[m].kind = "legacy" => backups'[m].kind = "legacy"]_vars

\* C12: when the processing of a month (lines 675-678) raises, the month is
\* not appended to processed_months, the run does not end, and the loop
\* goes on with the next month of the work list, up to its last.
C12_BatchFailureSkips ==
  [][event'.kind = "batch_failed" =>
        /\ metadata'.processed_months = metadata.processed_months
        /\ outcome' = outcome
        /\ unprocessed_months' = unprocessed_months
        /\ IF idx < Len(unprocessed_months)
           THEN pc' = "loop" /\ idx' = idx + 1
           ELSE pc' = "final"]_vars

\* C12 witness: the first month of a work list of two has failed, it is not
\* in the ledger, and the loop is at the second month.
C12_Witness ==
  /\ event = Event("batch_failed", 1)
  /\ unprocessed_months = <<1, 2>>
  /\ pc = "loop" /\ idx = 2
  /\ metadata.processed_months = << >>

\* C13: when the processing of a month (resolution or aggregation) raises,
\* the cumulative registry, the cumulative table and the ledger are what
\* they were before the month was started, in memory and on disk.
C13_BatchFailureLeavesState ==
  [][event'.kind = "batch_failed" =>
        /\ stations_data' = stations_data
        /\ merged_registry' = merged_registry
        /\ metadata' = metadata
        /\ disk' = disk
        /\ backups' = backups]_vars

\* C13 witness: the second month fails after the first was merged; the
\* table still holds the first month's pairs and the ledger the first month.
C13_Witness ==
  /\ event = Event("batch_failed", 2)
  /\ metadata.processed_months = <<1>>
  /\ Contributes(1, stations_data)
  /\ merged_registry # EmptyDict

\* C14: the months are merged in chronological order over all runs: the
\* ledger, which lists the months in the order of their merges, is
\* strictly increasing.
C14_ChronologicalMerges ==
  \A i, j \in 1..Len(metadata.processed_months) :
     i < j => metadata.processed_months[i] < metadata.processed_months[j]

\* The ledger, the registry and the pair table of a cumulative state: per
\* ordered pair the fastest time, its formatted text, the attempts, the
\* distance and the evidence (ride and date).
StateView(data, station_registry, meta) ==
  [ ledger |-> meta.processed_months,
    registry |-> station_registry,
    pairs |-> [p \in Pairs(data) |->
                 [ fastest_time_minutes |-> Dest(data, p).fastest_time_minutes,
                   fastest_time_formatted |-> Dest(data, p).fastest_time_formatted,
                   trip_count |-> Dest(data, p).trip_count,
                   distance_km |-> Dest(data, p).distance_km,
                   ride_id |-> Dest(data, p).ride_id,
                   date |-> Dest(data, p).date ]] ]

LoadedView(file) ==
  LET loaded == load_existing_data(file)
  IN  StateView(loaded.data, loaded.station_registry, loaded.metadata)

\* C17: load_existing_data on the data/stations.json written by
\* generate_hugo_content, and on the flat text written as a month's backup,
\* gives back the ledger, the registry and the pair table that were written.
C17_RoundTrip ==
  [][/\ event'.kind = "finished"
          => /\ load_existing_data(disk').ok
             /\ LoadedView(disk') = StateView(stations_data, merged_registry, metadata)
     /\ event'.kind = "merged"
          => /\ load_existing_data(backups'[event'.month]).ok
             /\ LoadedView(backups'[event'.month])
                  = StateView(stations_data', merged_registry', metadata')]_vars

\* C17 witness: a run has written data/stations.json with both months in
\* the ledger and a pair counted more than once.
C17_Witness ==
  /\ event.kind = "finished"
  /\ disk.kind = "new"
  /\ LoadedView(disk).ledger = <<1, 2>>
  /\ \E p \in DOMAIN LoadedView(disk).pairs : LoadedView(disk).pairs[p].trip_count > 1
  /\ backups[2].kind = "legacy"
  /\ LoadedView(backups[2]).pairs = LoadedView(disk).pairs

\* s is a prefix of t
IsPrefix(s, t) == Len(s) <= Len(t) /\ \A i \in 1..Len(s) : s[i] = t[i]

\* C20: the ledger is empty when a first run starts (no data/stations.json);
\* a month whose merge succeeds is appended, once, and was not in the
\* ledger; no other step of a run changes the ledger; and a write of
\* data/stations.json only extends the ledger the file held.
C20_LedgerLifecycle ==
  [][/\ (event'.kind = "start" /\ disk = Absent)
          => metadata'.processed_months = << >>
     /\ event'.kind \in {"merged", "backup_failed"}
          => /\ metadata'.processed_months
                  = Append(metadata.processed_months, event'.month)
             /\ \A i \in 1..Len(metadata.processed_months) :
                   metadata.processed_months[i] # event'.month
     /\ (pc = "loop" /\ pc' # "idle"
           /\ event'.kind \notin {"merged", "backup_failed"})
          => metadata'.processed_months = metadata.processed_months
     /\ (disk.kind = "new" /\ disk'.kind = "new")
          => IsPrefix(disk.metadata.processed_months,
                      disk'.metadata.processed_months)]_vars

\* C20 witness: a second run, started from a ledger holding the first
\* month, has merged the second and appended it.
C20_Witness ==
  /\ runs = 2
  /\ processed_months = {1}
  /\ event = Event("merged", 2)
  /\ metadata.processed_months = <<1, 2>>

\* ------------------------------------------------------------------------
\* Properties of the aggregation of one batch (SpecMerge)
\* ------------------------------------------------------------------------
\* The first trip of the batch, in the order of its rows, that has the
\* smallest duration among the trips of pair p.
FirstFastest(batch, p) ==
  LET m == MinOf({batch[j].dur : j \in TripsOf(batch, p)})
  IN  MinOf({j \in TripsOf(batch, p) : batch[j].dur = m})

\* C18: the batch table of the batch merged last (every batch is, in some
\* state) has exactly one row per ordered pair of keys with a trip in the
\* batch; its fastest time is the smallest duration of the pair's trips,
\* its trip_count their number, and its ride and start time are those of
\* the first trip with that duration.
C18_BatchAggregation ==
  hist # << >> =>
     LET i == Len(hist)
         batch == hist[i]
         table == ProcessBatch(i, batch).fastest_times
         pairs == {TripPair(batch[j]) : j \in 1..Len(batch)}
     IN  /\ {RowPair(row) : row \in table} = pairs
         /\ Cardinality(table) = Cardinality(pairs)
         /\ \A row \in table :
              LET trips == TripsOf(batch, RowPair(row))
                  first == FirstFastest(batch, RowPair(row))
              IN  /\ row.fastest_time_minutes = MinOf({batch[j].dur : j \in trips})
                  /\ row.trip_count = Cardinality(trips)
                  /\ row.ride_id = <<i, first>>
                  /\ row.started_at = [month |-> i, sec |-> first]

\* C18 witness: a batch with two trips of one pair at the same duration;
\* the row counts both and names the first.
C18_Witness ==
  /\ Len(hist) >= 1
  /\ hist[1] = << [s |-> "a", e |-> "b", dur |-> 300], [s |-> "a", e |-> "b", dur |-> 300] >>
  /\ \E row \in ProcessBatch(1, hist[1]).fastest_times :
       row.trip_count = 2 /\ row.ride_id = <<1, 1>>

\* ------------------------------------------------------------------------
\* Properties of the identity key (SpecKey)
\* ------------------------------------------------------------------------
\* Python's == on floats: -0.0 == 0.0.
FloatEq(x, y) == x.val = y.val

\* C15: the key of (lat, lng) is the key of the rounded coordinates, two
\* calls with the same arguments return the same key, and two calls whose
\* coordinates round to the same pair of values return the same key.
C15_KeyOfRoundedCoordinates ==
  \A i, j \in 1..Len(hist) :
     /\ hist[i].uuid = generate_station_uuid(round(hist[i].lat), round(hist[i].lng))
     /\ (hist[i].lat = hist[j].lat /\ hist[i].lng = hist[j].lng)
          => hist[i].uuid = hist[j].uuid
     /\ (FloatEq(round(hist[i].lat), round(hist[j].lat))
           /\ FloatEq(round(hist[i].lng), round(hist[j].lng)))
          => hist[i].uuid = hist[j].uuid

\* ------------------------------------------------------------------------
\* Properties of the registries (SpecRegistry)
\* ------------------------------------------------------------------------
\* The observations of a batch: the stations its trips start or end at.
Observations(batch) ==
  {Obs[batch[j].s] : j \in 1..Len(batch)} \cup {Obs[batch[j].e] : j \in 1..Len(batch)}

\* The rounded coordinate pair of an observation or of a registry entry.
Rounded(o) == <<round(o.lat).val, round(o.lng).val>>

C19_RegistryMerge ==
  [][(pc = "registry" /\ hist' # << >>) =>
       LET station_registry == ComputedRegistries[hist'[1]]
       IN  /\ DOMAIN merged_registry' = DOMAIN merged_registry \cup DOMAIN station_registry
           /\ \A u \in DOMAIN station_registry :
                IF u \notin DOMAIN merged_registry
                THEN merged_registry'[u] = station_registry[u]
                ELSE /\ merged_registry'[u].bluebike_ids
                          = merged_registry[u].bluebike_ids \cup station_registry[u].bluebike_ids
                     /\ merged_registry'[u].all_names
                          = merged_registry[u].all_names \cup station_registry[u].all_names
                     /\ merged_registry'[u].current_name = station_registry[u].current_name
           /\ \A u \in DOMAIN merged_registry \ DOMAIN station_registry :
                merged_registry'[u] = merged_registry[u]]_vars

\* C19 witness: the cumulative registry holds a key with the ids and names
\* of two batches, one seen under "12"/"MIT" and one under
\* "012X"/"MIT at Mass Ave", and the name of the batch folded last.
C19_Witness ==
  /\ pc = "registry"
  /\ hist = << << [s |-> "b", e |-> "c", dur |-> 300] >> >>
  /\ \E u \in DOMAIN merged_registry :
       /\ merged_registry[u].bluebike_ids = {"12", "012X"}
       /\ merged_registry[u].all_names = {"MIT", "MIT at Mass Ave"}
       /\ merged_registry[u].current_name = "MIT at Mass Ave"
       /\ merged_registry[u].lat = Obs["a"].lat

\* ------------------------------------------------------------------------
\* Properties of the runs, continued (Spec)
\* ------------------------------------------------------------------------
\* C21: when the merge of a month has completed, the backup of the month
\* holds the ledger with the month, the cumulative registry and the
\* cumulative table before the loop goes on to the next month; the loop
\* has one month at hand at a time.
C21_CheckpointBeforeNextBatch ==
  [][/\ event'.kind \in {"merged", "backup_failed"}
          => /\ backups'[event'.month]
                  = BackupJson(stations_data', merged_registry', metadata')
             /\ event'.month \in LedgerOf(backups'[event'.month])
     /\ pc' = "loop" => idx' \in 1..Len(unprocessed_months')]_vars

\* The months of a list, as a set.
MonthsOf(list) == {list[i] : i \in 1..Len(list)}

RECURSIVE MergedMonths(_)
MergedMonths(ledger) ==
  IF ledger = << >>
  THEN [stations |-> EmptyDict, merged_registry |-> EmptyDict]
  ELSE LET before == MergedMonths(SubSeq(ledger, 1, Len(ledger) - 1))
           m == ledger[Len(ledger)]
           b == ProcessBatch(m, bucket[FilenameFor(m, all_files)])
       IN  create_station_data(b.fastest_times, b.station_registry,
                               before.stations, before.merged_registry)

\* C23: the registry and the pair table of a written data/stations.json
\* are those obtained by merging exactly the months of its ledger, each
\* once: nothing of a month that is not listed, nothing twice.
C23_LedgerMatchesAggregate ==
  disk.kind = "new" =>
     LET expected == MergedMonths(disk.metadata.processed_months)
     IN  /\ disk.station_registry = expected.merged_registry
         /\ LoadedView(disk).pairs
              = StateView(expected.stations, expected.merged_registry, disk.metadata).pairs

\* C30: when a run is killed with a month at hand, data/stations.json is
\* what it was when the run started: the month is not in its ledger, it is
\* in the work list the next run computes, and the file can be loaded.
C30_CancelledBatchIsRetried ==
  [][(event'.kind \in {"crash", "crash_in_backup"} /\ event'.month # 0)
       => /\ disk' = disk
          /\ load_existing_data(disk').ok
          /\ event'.month \notin LedgerOf(disk')
          /\ event'.month \in MonthsOf(WorkList(all_files, LedgerOf(disk')))]_vars

\* C30 witness: a second run, started from a ledger holding month 1, was
\* killed with month 2 at hand; the next work list is month 2.
C30_Witness ==
  /\ outcome = "killed"
  /\ event = Event("crash", 2)
  /\ LedgerOf(disk) = {1}
  /\ WorkList(all_files, LedgerOf(disk)) = <<2>>
\* ------------------------------------------------------------------------
\* Properties of the merge, continued (SpecMerge)
\* ------------------------------------------------------------------------
\* C25: in every cumulative state the ride_id and date stored for a pair are
\* those of a trip of that same pair in a merged batch, and the duration of
\* that trip is the pair's stored fastest time.
C25_EvidenceConsistent ==
  \A p \in Pairs(stations_data) :
     LET d == Dest(stations_data, p)
         x == d.ride_id
     IN  /\ x[1] \in 1..Len(hist)
         /\ x[2] \in 1..Len(hist[x[1]])
         /\ TripPair(hist[x[1]][x[2]]) = p
         /\ hist[x[1]][x[2]].dur = d.fastest_time_minutes
         /\ d.date = Strftime([month |-> x[1], sec |-> x[2]])

\* C25 witness: a pair first seen at 7:30, improved to 5:00 by the second
\* trip of the second batch, which is now its evidence.
C25_Witness ==
  /\ hist = << <<[s |-> "a", e |-> "b", dur |-> 450]>>,
               <<[s |-> "a", e |-> "b", dur |-> 450], [s |-> "a", e |-> "b", dur |-> 300]>> >>
  /\ Dest(stations_data, AB).ride_id = <<2, 2>>
  /\ Dest(stations_data, AB).date = <<2, 2>>
  /\ Dest(stations_data, AB).fastest_time_minutes = 300

\* C29: in every cumulative state the formatted time of every pair is the
\* whole minutes of its fastest time and the whole seconds of the remaining
\* fraction of a minute (7.5 minutes give 7:30, 5.0 minutes give 5:00).
C29_FormattedFromMinutes ==
  \A p \in Pairs(stations_data) :
     LET d == Dest(stations_data, p)
     IN  /\ d.fastest_time_formatted.sec \in 0..59
         /\ 60 * d.fastest_time_formatted.min + d.fastest_time_formatted.sec
              = d.fastest_time_minutes

\* C29 witness: one pair improved from 7:30 to 5:00 by a later batch while
\* another pair stands at 7:30.
C29_Witness ==
  /\ hist = << <<[s |-> "a", e |-> "b", dur |-> 450], [s |-> "b", e |-> "a", dur |-> 450]>>,
               <<[s |-> "a", e |-> "b", dur |-> 300]>> >>
  /\ Dest(stations_data, AB).fastest_time_formatted = [min |-> 5, sec |-> 0]
  /\ \E p \in Pairs(stations_data) :
       Dest(stations_data, p).fastest_time_formatted = [min |-> 7, sec |-> 30]

\* ------------------------------------------------------------------------
\* Properties of the registries, continued (SpecRegistry)
\* ------------------------------------------------------------------------
\* The station observations of a batch in the order of its trips: the start
\* of the first trip, its end, the start of the second trip, its end, ...
TripOrder(batch) ==
  [k \in 1..(2 * Len(batch)) |->
     IF k % 2 = 1 THEN Obs[batch[(k + 1) \div 2].s] ELSE Obs[batch[k \div 2].e]]

\* The station observations of a batch in the order in which the loops of
\* create_station_registry meet them: the starts of all trips, then the
\* ends of all trips.
StartsThenEnds(batch) ==
  [k \in 1..(2 * Len(batch)) |->
     IF k <= Len(batch) THEN Obs[batch[k].s] ELSE Obs[batch[k - Len(batch)].e]]

\* The positions of a sequence of observations that carry key u.
PositionsOf(observations, u) ==
  {k \in DOMAIN observations :
      generate_station_uuid(observations[k].lat, observations[k].lng) = u}

MaxOf(S) == CHOOSE x \in S : \A y \in S : x >= y

\* C26: the current_name of every key of a batch registry is the name of
\* the last observation of the key, start or end, in the order of the
\* batch's trips.
C26_CurrentNameOfLastObservation ==
  (pc = "registry" /\ hist # << >>) =>
     LET station_registry == ComputedRegistries[hist[1]]
         observations == TripOrder(hist[1])
     IN  \A u \in DOMAIN station_registry :
            station_registry[u].current_name
              = observations[MaxOf(PositionsOf(observations, u))].name

C24_DistanceOfRegistryCoordinates ==
  [][Merged =>
       /\ \A p \in Pairs(stations_data') :
            Dest(stations_data', p).distance_km
              = Round2(haversine_distance(merged_registry'[p[1]].lat, merged_registry'[p[1]].lng,
                                          merged_registry'[p[2]].lat, merged_registry'[p[2]].lng))
       /\ \A p \in Pairs(stations_data) :
            Dest(stations_data', p).distance_km = Dest(stations_data, p).distance_km]_vars

\* ------------------------------------------------------------------------
\* Properties of the key lookup (SpecResolve)
\* ------------------------------------------------------------------------
\* The positions of the trips of a batch whose start and end both round to
\* coordinates registered by the batch other.
Resolvable(batch, other) ==
  LET registered == {Rounded(o) : o \in Observations(other)}
  IN  {j \in 1..Len(batch) : /\ Rounded(Obs[batch[j].s]) \in registered
                             /\ Rounded(Obs[batch[j].e]) \in registered}

\* C28: the frame returned holds exactly the trips whose start and end
\* resolve to a key, in their order and with their keys; the number of
\* trips left out is counted; and the batch table made of the frame
\* counts every trip that is left.
C28_UnmappableDropped ==
  (pc = "resolve" /\ hist # << >>) =>
     LET call == hist[1]
         kept == Resolvable(call.batch, call.other)
         df == call.df
         fastest_times == calculate_fastest_times(df)
     IN  /\ {df[i].ride_id : i \in 1..Len(df)} = {<<1, j>> : j \in kept}
         /\ Len(df) = Cardinality(kept)
         /\ \A i \in 1..Len(df) : \A k \in 1..Len(df) :
               i < k => df[i].ride_id[2] < df[k].ride_id[2]
         /\ \A i \in 1..Len(df) :
               <<df[i].start_station_uuid, df[i].end_station_uuid>>
                  = TripPair(call.batch[df[i].ride_id[2]])
         /\ call.filtered_out = Len(call.batch) - Cardinality(kept)
         /\ {RowPair(row) : row \in fastest_times} = {TripPair(call.batch[j]) : j \in kept}
         /\ \A row \in fastest_times :
               row.trip_count = Cardinality({j \in kept : TripPair(call.batch[j]) = RowPair(row)})

\* C28 witness: the registry holds the MIT dock only.  The first trip of
\* the frame ends at Central: it is left out and counted; the second trip,
\* between the two observations of the dock, is kept.
C28_Witness ==
  /\ pc = "resolve"
  /\ hist # << >>
  /\ hist[1].batch = << [s |-> "a", e |-> "b", dur |-> 300], [s |-> "c", e |-> "a", dur |-> 300] >>
  /\ hist[1].other = << [s |-> "a", e |-> "c", dur |-> 300] >>
  /\ hist[1].filtered_out = 1
  /\ Len(hist[1].df) = 1
  /\ hist[1].df[1].ride_id = <<1, 2>>

\* ------------------------------------------------------------------------
\* Properties of the merge frame (SpecFrame)
\* ------------------------------------------------------------------------
BA == TripPair([s |-> "b", e |-> "a", dur |-> 300])

AA == TripPair([s |-> "a", e |-> "c", dur |-> 300])

\* C31: a merge leaves every pair entry of the table whose pair is not in
\* the batch table, and every registry entry whose key is not in the batch
\* registry, exactly as it was.
C31_MergeFrame ==
  [][Merged =>
       LET b == ProcessBatch(Len(hist'), hist'[Len(hist')])
           touched == {RowPair(row) : row \in b.fastest_times}
       IN  /\ \A p \in Pairs(stations_data) \ touched :
                /\ p \in Pairs(stations_data')
                /\ Dest(stations_data', p) = Dest(stations_data, p)
           /\ \A u \in DOMAIN merged_registry \ DOMAIN b.station_registry :
                /\ u \in DOMAIN merged_registry'
                /\ merged_registry'[u] = merged_registry[u]]_vars

\* C31 witness: MIT -> Central and Central -> MIT are in the table; the
\* batch merged last has trips within the MIT dock only and its registry
\* does not hold Central.  Both pair entries and Central's registry entry
\* are those of the first batch.
C31_Witness ==
  /\ pc = "frame"
  /\ hist = << << [s |-> "a", e |-> "b", dur |-> 450], [s |-> "b", e |-> "a", dur |-> 300] >>,
               << [s |-> "a", e |-> "c", dur |-> 300] >> >>
  /\ AA \in Pairs(stations_data)
  /\ Dest(stations_data, AB).trip_count = 1
  /\ Dest(stations_data, AB).ride_id = <<1, 1>>
  /\ Dest(stations_data, BA).ride_id = <<1, 2>>
  /\ merged_registry[BA[1]].current_name = "Central"
  /\ BA[1] \notin DOMAIN ProcessBatch(2, hist[2]).station_registry

\* C32: every start key and every end key of the pair table has an entry
\* in the cumulative registry.
C32_ReferentialIntegrity ==
  \A p \in Pairs(stations_data) :
     /\ p[1] \in DOMAIN merged_registry
     /\ p[2] \in DOMAIN merged_registry

\* C32 witness: two merges, three pairs in the table, both of their keys in
\* the registry.
C32_Witness ==
  /\ pc = "frame"
  /\ Len(hist) = 2
  /\ Pairs(stations_data) = {AB, BA, AA}
  /\ DOMAIN merged_registry = {AB[1], AB[2]}

\* ------------------------------------------------------------------------
\* Properties of the listing (SpecListing)
\* ------------------------------------------------------------------------
\* A list without a repeated element.
NoRepeat(list) ==
  \A i \in 1..Len(list) : \A j \in 1..Len(list) : i # j => list[i] # list[j]

\* C33: whatever the listing, the ledger of a run never holds a month
\* twice (no month is merged twice within a run), and neither does the
\* ledger written to data/stations.json.
C33_NoBatchTwice ==
  /\ NoRepeat(metadata.processed_months)
  /\ disk.kind = "new" => NoRepeat(disk.metadata.processed_months)

====
